---------------------------- MODULE Spec2Model ----------------------------
(***************************************************************************)
(* Model of backend/app.py: the Flask video-translation API.               *)
(*                                                                         *)
(* State: the two SQLite tables (user, translation_job), the uploads       *)
(* folder, the HEYGEN_API_KEY setting, and the /api/translate requests     *)
(* that are in flight.  Every request runs in its own SQLAlchemy session;  *)
(* the server handles requests in parallel, so a translate request is      *)
(* split at its database writes: the SELECT of line 204, the commit of     *)
(* line 217 and the commit of line 232.  A commit, and the reload that     *)
(* job.to_dict() does after it, can raise; a commit that raises leaves the *)
(* table as it was and rolls the session back.  A response is not state:   *)
(* it is given as an operator of the state the handler reads.  The         *)
(* created_at columns are left out.                                        *)
(***************************************************************************)
EXTENDS Integers, Sequences, FiniteSets, TLC

\* ----------------------------------------------------------------- bounds
MaxJobs == 2

\* ------------------------------------------------------------ input values
NULL == "NULL"

Emails == {"a@x.org"}

SupportedLanguages == {"es", "fr", "de", "it", "pt", "ru", "ja", "ko", "zh", "hi"}

\* target_language values a client sends: two supported codes, one that is
\* not supported, and JSON null
RequestedLanguages == {"es", "fr", "xx", NULL}

Filenames == {"clip.mp4"}
Contents == {"bytes1"}

UserIds == 1..(Cardinality(Emails) + 1)
JobIds == 1..(MaxJobs + 1)
\* the requests the server is handling at one time
Requests == {"r1", "r2"}

\* request.get_json() of /api/users: no body / empty object, or {"email": e}
UserBodies == {<<>>} \cup {[email |-> e] : e \in Emails}

\* request.form and request.files of /api/upload
UploadForms == {<<>>} \cup {[user_id |-> u] : u \in UserIds}
UploadFiles ==
    {<<>>} \cup {[file |-> [filename |-> f, content |-> c]] :
                    f \in Filenames, c \in Contents}
           \cup {[file |-> [filename |-> "", content |-> ""]]}

\* request.get_json() of /api/translate
TranslateBodies ==
    {<<>>}
    \cup {[job_id |-> j] : j \in JobIds}
    \cup {[target_language |-> l] : l \in RequestedLanguages}
    \cup {[job_id |-> j, target_language |-> l] :
            j \in JobIds, l \in RequestedLanguages}

\* ------------------------------------------------------------------- state
VARIABLES
    HEYGEN_API_KEY,  \* whether the environment variable is set
    users,           \* table user: sequence of rows, row i has id i
    jobs,            \* table translation_job: sequence of rows, row i has id i
    uploads,         \* the uploads folder: filename -> stored bytes
    req,             \* the translate requests in flight
    succeeded        \* job id -> number of 200 responses of /api/translate

vars == <<HEYGEN_API_KEY, users, jobs, uploads, req, succeeded>>

\* ------------------------------------------------------------------ models
\* class User
User(id, email) == [id |-> id, email |-> email]

NoUser == User(0, "")

\* class TranslationJob; status defaults to 'uploaded', target_language is nullable
TranslationJob(id, user_id, original_filename, target_language, status) ==
    [id |-> id, user_id |-> user_id, original_filename |-> original_filename,
     target_language |-> target_language, status |-> status]

NoJob == TranslationJob(0, 0, "", NULL, "")

\* TranslationJob.to_dict
to_dict(row) == row

\* Model.query.get(id): the row with that primary key, or None
QueryGet(table, none, id) ==
    IF id \in DOMAIN table THEN table[id] ELSE none

\* User.query.filter_by(email=...).first() is not None
EmailExists(email) == \E i \in DOMAIN users : users[i].email = email

\* db.session.add(row); db.session.commit(): INSERT with the next primary key
NextId(table) == Len(table) + 1

\* jsonify(...), code: the HTTP status, the 'error' text, the 'job' payload
Response(code, error, job) == [code |-> code, error |-> error, job |-> job]

\* the handler has not returned
Pass == Response(0, <<>>, NoJob)

Idle == [pc |-> "idle", job_id |-> 0, target_language |-> NULL, job |-> NoJob]

\* the shape of the state: the columns of the two tables (lines 30-48), the
\* uploads folder and the requests in flight
TypeOK ==
    /\ HEYGEN_API_KEY \in BOOLEAN
    /\ \A i \in DOMAIN users : users[i].id = i /\ users[i].email \in Emails
    /\ \A j \in DOMAIN jobs :
        /\ jobs[j].id = j
        /\ jobs[j].user_id \in UserIds
        /\ jobs[j].original_filename \in Filenames
        /\ jobs[j].target_language \in RequestedLanguages
        /\ jobs[j].status \in {"uploaded", "processing", "failed"}
    /\ \A f \in Filenames : uploads[f] \in Contents \cup {""}
    /\ \A r \in Requests :
        /\ req[r].pc \in {"idle", "checked", "loaded", "except"}
        /\ req[r].pc = "checked" => req[r].email \in Emails
        /\ req[r].pc \in {"loaded", "except"} => req[r].job_id \in DOMAIN jobs
    /\ \A j \in JobIds : succeeded[j] \in Nat

\* ----------------------------------------------------------------- initial
Init ==
    /\ HEYGEN_API_KEY \in BOOLEAN
    /\ users = <<>>
    /\ jobs = <<>>
    /\ uploads = [f \in Filenames |-> ""]
    /\ req = [r \in Requests |-> Idle]
    /\ succeeded = [j \in JobIds |-> 0]

\* ---------------------------------------------------------- POST /api/users
\* lines 103-108: the early returns
create_user_checks(data) ==
    IF data = <<>> \/ "email" \notin DOMAIN data
    THEN Response(400, <<"Email is required">>, NoJob)
    ELSE IF EmailExists(data.email)
    THEN Response(400, <<"User already exists">>, NoJob)
    ELSE Pass

create_user(data) ==
    /\ UNCHANGED <<HEYGEN_API_KEY, jobs, uploads, req, succeeded>>
    /\ IF create_user_checks(data) # Pass
       THEN UNCHANGED users
       ELSE users' = Append(users, User(NextId(users), data.email))

\* InsertUser without the UNIQUE constraint on user.email
InsertUser_NoUnique(table, email) ==
    Append(table, User(Len(table) + 1, email))

\* lines 110-112 against the table of lines 30-33: the INSERT the commit
\* emits.  user.email is UNIQUE, so an INSERT of an email some row has raises
\* IntegrityError and the transaction is rolled back.
InsertUser(table, email) ==
    IF \E i \in DOMAIN table : table[i].email = email
    THEN table
    ELSE Append(table, User(Len(table) + 1, email))

\* lines 101-108 of one request among others: the checks, up to the SELECT by
\* email
CreateUserBegin(r, data) ==
    /\ req[r].pc = "idle"
    /\ UNCHANGED <<HEYGEN_API_KEY, users, jobs, uploads, succeeded>>
    /\ IF create_user_checks(data) # Pass
       THEN UNCHANGED req
       ELSE req' = [req EXCEPT ![r] = [pc |-> "checked", email |-> data.email]]

\* lines 110-117 of that request: add, commit and answer 201 with the user;
\* a raise in the commit is not caught and leaves the table as it was
CreateUserCommit(r) ==
    /\ req[r].pc = "checked"
    /\ UNCHANGED <<HEYGEN_API_KEY, jobs, uploads, succeeded>>
    /\ req' = [req EXCEPT ![r] = Idle]
    /\ \/ users' = InsertUser(users, req[r].email)
       \/ UNCHANGED users

\* ----------------------------------------------------------- GET /api/jobs
\* lines 121-125: every row of the table, and their number
get_jobs_response ==
    [code |-> 200, jobs |-> [j \in DOMAIN jobs |-> to_dict(jobs[j])],
     count |-> Len(jobs)]

\* a read: the handler returns get_jobs_response and writes nothing
get_jobs ==
    /\ get_jobs_response.code = 200
    /\ UNCHANGED vars

\* ------------------------------------------------------ GET /api/jobs/<id>
\* get_job_status_response answering with the row as it was created
get_job_status_response_AsCreated(job_id) ==
    LET job == QueryGet(jobs, NoJob, job_id) IN
    IF job = NoJob
    THEN Response(404, <<"Job not found">>, NoJob)
    ELSE Response(200, <<>>, to_dict([job EXCEPT !.status = "uploaded",
                                                 !.target_language = NULL]))

\* lines 129-136: 404 without the row, 200 with the row
get_job_status_response(job_id) ==
    LET job == QueryGet(jobs, NoJob, job_id) IN
    IF job = NoJob
    THEN Response(404, <<"Job not found">>, NoJob)
    ELSE Response(200, <<>>, to_dict(job))

\* a read: the handler returns get_job_status_response and writes nothing
get_job_status(job_id) ==
    /\ get_job_status_response(job_id) # Pass
    /\ UNCHANGED vars

\* --------------------------------------------------------- POST /api/upload
\* upload_file_checks with the file looked at before the user
upload_file_checks_FileFirst(form, files) ==
    IF "file" \notin DOMAIN files
    THEN Response(400, <<"No file provided">>, NoJob)
    ELSE IF files.file.filename = ""
    THEN Response(400, <<"No file selected">>, NoJob)
    ELSE IF "user_id" \notin DOMAIN form
    THEN Response(400, <<"user_id is required">>, NoJob)
    ELSE IF QueryGet(users, NoUser, form.user_id) = NoUser
    THEN Response(404, <<"User not found">>, NoJob)
    ELSE Pass

\* lines 140-153: the early returns
upload_file_checks(form, files) ==
    IF "user_id" \notin DOMAIN form
    THEN Response(400, <<"user_id is required">>, NoJob)
    ELSE IF QueryGet(users, NoUser, form.user_id) = NoUser
    THEN Response(404, <<"User not found">>, NoJob)
    ELSE IF "file" \notin DOMAIN files
    THEN Response(400, <<"No file provided">>, NoJob)
    ELSE IF files.file.filename = ""
    THEN Response(400, <<"No file selected">>, NoJob)
    ELSE Pass

\* NewJob with the status of a job whose translation was already requested
NewJob_Processing(user_id, filename) ==
    TranslationJob(NextId(jobs), user_id, filename, NULL, "processing")

\* lines 160-164: the row the handler builds
NewJob(user_id, filename) ==
    TranslationJob(NextId(jobs), user_id, filename, NULL, "uploaded")

\* lines 156-157: the path the upload is saved under, which is the only
\* reference a job row keeps to its file (original_filename, line 162)
file_path(filename) == <<"uploads", filename>>

\* lines 155-174 with nothing raising: 201 with the job
UploadStored(form, file) ==
    /\ Len(jobs) < MaxJobs
    /\ uploads' = [uploads EXCEPT ![file.filename] = file.content]
    /\ jobs' = Append(jobs, NewJob(form.user_id, file.filename))

\* file.save raises: nothing stored, no row, 500 'Upload failed'
UploadSaveRaises ==
    UNCHANGED <<uploads, jobs>>

\* db.session.commit raises: the file is stored, the row is not, 500 'Upload failed'
UploadCommitRaises(file) ==
    /\ uploads' = [uploads EXCEPT ![file.filename] = file.content]
    /\ UNCHANGED jobs

upload_file(form, files) ==
    /\ UNCHANGED <<HEYGEN_API_KEY, users, req, succeeded>>
    /\ IF upload_file_checks(form, files) # Pass
       THEN UNCHANGED <<uploads, jobs>>
       ELSE \/ UploadStored(form, files.file)
            \/ UploadSaveRaises
            \/ UploadCommitRaises(files.file)

\* ------------------------------------------------------ POST /api/translate
\* StatusIsUploaded letting a failed job be translated again
StatusIsUploaded_OrFailed(job) == job.status \in {"uploaded", "failed"}

\* line 208: the guard that lets a job be translated
StatusIsUploaded(job) == job.status = "uploaded"

\* start_translation_checks with the key looked at after the body and the job
start_translation_checks_KeyLast(data) ==
    IF data = <<>> \/ "job_id" \notin DOMAIN data
                   \/ "target_language" \notin DOMAIN data
    THEN Response(400, <<"job_id and target_language are required">>, NoJob)
    ELSE LET job == QueryGet(jobs, NoJob, data.job_id) IN
         IF job = NoJob
         THEN Response(404, <<"Job not found">>, NoJob)
         ELSE IF ~StatusIsUploaded(job)
         THEN Response(400, <<"Job status is", job.status, "expected uploaded">>, NoJob)
         ELSE IF ~HEYGEN_API_KEY
         THEN Response(500, <<"HeyGen API not configured">>, NoJob)
         ELSE Pass

\* start_translation_checks without the 'if not job' return of lines 205-206:
\* an unknown job falls through to the status check
start_translation_checks_NoNotFound(data) ==
    IF ~HEYGEN_API_KEY
    THEN Response(500, <<"HeyGen API not configured">>, NoJob)
    ELSE IF data = <<>> \/ "job_id" \notin DOMAIN data
                        \/ "target_language" \notin DOMAIN data
    THEN Response(400, <<"job_id and target_language are required">>, NoJob)
    ELSE LET job == QueryGet(jobs, NoJob, data.job_id) IN
         IF ~StatusIsUploaded(job)
         THEN Response(400, <<"Job status is", job.status, "expected uploaded">>, NoJob)
         ELSE Pass

\* lines 186-211: the early returns
start_translation_checks(data) ==
    IF ~HEYGEN_API_KEY
    THEN Response(500, <<"HeyGen API not configured">>, NoJob)
    ELSE IF data = <<>> \/ "job_id" \notin DOMAIN data
                        \/ "target_language" \notin DOMAIN data
    THEN Response(400, <<"job_id and target_language are required">>, NoJob)
    ELSE LET job == QueryGet(jobs, NoJob, data.job_id) IN
         IF job = NoJob
         THEN Response(404, <<"Job not found">>, NoJob)
         ELSE IF ~StatusIsUploaded(job)
         THEN Response(400, <<"Job status is", job.status, "expected uploaded">>, NoJob)
         ELSE Pass

\* Flush as an UPDATE without its WHERE id = ... clause
Flush_NoWhere(table, loaded, status, target_language) ==
    [j \in DOMAIN table |->
        [table[j] EXCEPT !.status = status,
                         !.target_language = target_language]]

\* lines 215-217: the UPDATE the session's flush emits, one SET per attribute
\* whose value differs from the one loaded
Flush(table, loaded, status, target_language) ==
    [table EXCEPT ![loaded.id] =
        [@ EXCEPT !.status = IF status # loaded.status THEN status ELSE @,
                  !.target_language =
                      IF target_language # loaded.target_language
                      THEN target_language ELSE @]]

\* lines 231-232: after a raise the session's row is expired, so the flush
\* sets the status column alone
FlushFailed(table, id) ==
    [table EXCEPT ![id] = [@ EXCEPT !.status = "failed"]]

\* lines 186-211: the checks, up to the SELECT of the job
TranslateBegin(r, data) ==
    /\ req[r].pc = "idle"
    /\ UNCHANGED <<HEYGEN_API_KEY, users, jobs, uploads, succeeded>>
    /\ IF start_translation_checks(data) # Pass
       THEN UNCHANGED req
       ELSE req' = [req EXCEPT ![r] =
                       [pc |-> "loaded", job_id |-> data.job_id,
                        target_language |-> data.target_language,
                        job |-> QueryGet(jobs, NoJob, data.job_id)]]

\* lines 213-228: set the attributes, commit, and answer 200 with the job;
\* a raise in the commit or in building the response enters the handler
TranslateCommit(r) ==
    /\ req[r].pc = "loaded"
    /\ UNCHANGED <<HEYGEN_API_KEY, users, uploads>>
    /\ \/ /\ jobs' = Flush(jobs, req[r].job, "processing", req[r].target_language)
          /\ succeeded' = [succeeded EXCEPT ![req[r].job_id] = @ + 1]
          /\ req' = [req EXCEPT ![r] = Idle]
       \/ /\ jobs' = Flush(jobs, req[r].job, "processing", req[r].target_language)
          /\ req' = [req EXCEPT ![r].pc = "except"]
          /\ UNCHANGED succeeded
       \/ /\ req' = [req EXCEPT ![r].pc = "except"]
          /\ UNCHANGED <<jobs, succeeded>>

\* lines 230-238: the exception handler marks the job failed, commits and
\* answers 500 with the job; a raise here is not caught
TranslateExcept(r) ==
    /\ req[r].pc = "except"
    /\ UNCHANGED <<HEYGEN_API_KEY, users, uploads, succeeded>>
    /\ req' = [req EXCEPT ![r] = Idle]
    /\ \/ jobs' = FlushFailed(jobs, req[r].job_id)
       \/ UNCHANGED jobs

\* ------------------------------------------------- a provider outcome report
\* the URL rules of lines 61-182: "/", "/api/test", "/api/users", "/api/jobs",
\* "/api/jobs/<id>", "/api/upload", "/api/translate".  None of them takes a
\* provider's outcome for a job, and no handler writes a status other than
\* 'uploaded', 'processing' and 'failed' (lines 163, 215, 231): a report that
\* a job completed or failed is answered 404 by Flask and writes nothing.
provider_outcome_response(job_id, outcome) ==
    Response(404, <<"Not Found">>, NoJob)

\* the translation_job table after such a report
ProviderOutcomeApplied(table, job_id, outcome) == table

\* ------------------------------------------------------------ specification
Next ==
    \/ \E data \in UserBodies : create_user(data)
    \/ get_jobs
    \/ \E j \in JobIds : get_job_status(j)
    \/ \E form \in UploadForms, files \in UploadFiles : upload_file(form, files)
    \/ \E r \in Requests, data \in TranslateBodies : TranslateBegin(r, data)
    \/ \E r \in Requests : TranslateCommit(r)
    \/ \E r \in Requests : TranslateExcept(r)

Spec == Init /\ [][Next]_vars

\* the server runs every request it has accepted to its response
FairSpec ==
    /\ Init
    /\ [][Next]_vars
    /\ \A r \in Requests :
        /\ WF_vars(TranslateCommit(r))
        /\ WF_vars(TranslateExcept(r))

\* /api/users with its two database round trips as separate steps, so that
\* other requests run between the SELECT by email and the INSERT
AccountNext ==
    \/ \E r \in Requests, data \in UserBodies : CreateUserBegin(r, data)
    \/ \E r \in Requests : CreateUserCommit(r)
    \/ get_jobs
    \/ \E j \in JobIds : get_job_status(j)
    \/ \E form \in UploadForms, files \in UploadFiles : upload_file(form, files)
    \/ \E r \in Requests, data \in TranslateBodies : TranslateBegin(r, data)
    \/ \E r \in Requests : TranslateCommit(r)
    \/ \E r \in Requests : TranslateExcept(r)

AccountSpec == Init /\ [][AccountNext]_vars

\* ------------------------------------------------------------------ claims
Statuses == {"uploaded", "processing", "completed", "failed"}

LegalEdges ==
    {<<"uploaded", "processing">>, <<"processing", "completed">>,
     <<"processing", "failed">>}

Terminal == {"completed", "failed"}

\* C1: every persisted job has one of the four statuses, and a step changes a
\* job's status only along uploaded->processing, processing->completed or
\* processing->failed.
C1_StatusFollowsLegalEdges ==
    /\ [](\A j \in DOMAIN jobs : jobs[j].status \in Statuses)
    /\ [][\A j \in DOMAIN jobs :
            jobs'[j].status # jobs[j].status
                => <<jobs[j].status, jobs'[j].status>> \in LegalEdges]_vars

\* C2: of the translate requests on one job at most one is answered 200,
\* whatever the interleaving.
C2_AtMostOneSuccessPerJob ==
    \A j \in JobIds : succeeded[j] <= 1

\* C3: a job's target_language is null exactly when its status is uploaded.
C3_TargetLanguageNullIffUploaded ==
    \A j \in DOMAIN jobs :
        (jobs[j].target_language = NULL) <=> (jobs[j].status = "uploaded")

\* C4: no job holds a target_language outside the supported set: a request
\* with an unsupported language leaves the job as it was.
C4_OnlySupportedLanguages ==
    \A j \in DOMAIN jobs :
        jobs[j].target_language \in SupportedLanguages \cup {NULL}

C6_TargetLanguageWrittenOnce ==
    [][\A j \in DOMAIN jobs :
        jobs[j].target_language # NULL
            => jobs'[j].target_language = jobs[j].target_language]_vars

\* C7: a job whose status is failed or completed keeps that status.
C7_TerminalIsFinal ==
    [][\A j \in DOMAIN jobs :
        jobs[j].status \in Terminal => jobs'[j].status = jobs[j].status]_vars

\* C8: a step that adds a job adds exactly one row, leaves the rows there
\* were, gives the new row an id no other row has, status uploaded, a null
\* target_language and an owner that is a registered user; an upload for a
\* user id that is not registered is answered 404.
C8_UploadCreatesOneFreshJob ==
    /\ [](\A u \in UserIds : \A files \in UploadFiles :
            u \notin DOMAIN users
                => upload_file_checks([user_id |-> u], files)
                     = Response(404, <<"User not found">>, NoJob))
    /\ [][jobs' # jobs /\ Len(jobs') # Len(jobs)
            => /\ Len(jobs') = Len(jobs) + 1
               /\ SubSeq(jobs', 1, Len(jobs)) = jobs
               /\ LET job == jobs'[Len(jobs')] IN
                  /\ job.id \notin {jobs[i].id : i \in DOMAIN jobs}
                  /\ job.status = "uploaded"
                  /\ job.target_language = NULL
                  /\ job.user_id \in {users[i].id : i \in DOMAIN users}
                  /\ QueryGet(jobs', NoJob, job.id) = job]_vars

\* C8 witness: a second job was uploaded while the first one existed.
C8_Witness ==
    /\ Len(jobs) = 2
    /\ jobs[1].id # jobs[2].id
    /\ jobs[2].status = "uploaded"
    /\ jobs[2].target_language = NULL
    /\ jobs[2].user_id \in DOMAIN users

\* C9: when a translate request that raised returns, the job's persisted
\* status is failed.
C9_RaisedEndsFailed ==
    [][\A r \in Requests :
        req[r].pc = "except" /\ req'[r].pc = "idle"
            => jobs'[req[r].job_id].status = "failed"]_vars

\* C10: a job that is processing after a translate request was answered 200
\* eventually reaches completed or failed.
C10_ProcessingEventuallyTerminal ==
    \A j \in JobIds :
        (j \in DOMAIN jobs /\ jobs[j].status = "processing" /\ succeeded[j] > 0)
            ~> (j \in DOMAIN jobs /\ jobs[j].status \in Terminal)

\* C11: an outcome delivered for a processing job moves it to that outcome,
\* and an outcome delivered for a job that is already terminal is answered
\* without error, with the job, and leaves the table as it is.
C11_OutcomeDeliveryIdempotent ==
    \A j \in DOMAIN jobs : \A outcome \in Terminal :
        /\ jobs[j].status = "processing"
            => ProviderOutcomeApplied(jobs, j, outcome)[j].status = outcome
        /\ jobs[j].status \in Terminal
            => /\ provider_outcome_response(j, outcome) = Response(200, <<>>, to_dict(jobs[j]))
               /\ ProviderOutcomeApplied(jobs, j, outcome) = jobs

\* C12 as claimed: a translate request that names a job id no row has is
\* answered 404 'Job not found'.
C12_UnknownJobIs404 ==
    \A j \in JobIds : \A l \in RequestedLanguages :
        j \notin DOMAIN jobs
            => start_translation_checks([job_id |-> j, target_language |-> l])
                 = Response(404, <<"Job not found">>, NoJob)

\* C12 as amended: when HEYGEN_API_KEY is set, a translate request that names
\* a job id no row has is answered 404 'Job not found'; whether or not the key
\* is set, such a request is not taken on and changes no table.
C12_UnknownJobIs404WhenConfigured ==
    /\ [](HEYGEN_API_KEY => C12_UnknownJobIs404)
    /\ [][\A r \in Requests : \A data \in TranslateBodies :
            (/\ TranslateBegin(r, data)
             /\ "job_id" \in DOMAIN data
             /\ data.job_id \notin DOMAIN jobs)
                => UNCHANGED vars]_vars

\* C12 witness: the key is set, one job exists, a request slot is free, and a
\* request for another job id is answered 404.
C12_Witness ==
    /\ HEYGEN_API_KEY
    /\ Len(jobs) = 1
    /\ \E r \in Requests : req[r].pc = "idle"
    /\ start_translation_checks([job_id |-> 2, target_language |-> "es"]).code = 404

\* C13: no two rows of the user table have the same email, whatever the
\* interleaving of create_user requests; a create_user whose email a row
\* already has is answered 400 at the check, and one that passed the check
\* before that row was written adds no row.
C13_EmailUnique ==
    /\ [](\A i, k \in DOMAIN users : users[i].email = users[k].email => i = k)
    /\ [](\A e \in Emails :
            EmailExists(e) => create_user_checks([email |-> e])
                                = Response(400, <<"User already exists">>, NoJob))
    /\ [][\A r \in Requests :
            (CreateUserCommit(r) /\ EmailExists(req[r].email))
                => users' = users]_vars

\* C13 witness: a row has the email that a request past its own existence
\* check is about to insert.
C13_Witness ==
    \E r \in Requests :
        /\ req[r].pc = "checked"
        /\ EmailExists(req[r].email)

\* C14: GET /api/jobs/<id> answers 200 with the status and target_language the
\* row has now when the row exists and 404 'Job not found' when it does not,
\* GET /api/jobs lists every row as it is now, and neither request changes
\* the job table or the user table.
C14_ReadsArePure ==
    /\ [](\A j \in JobIds :
            IF j \in DOMAIN jobs
            THEN /\ get_job_status_response(j).code = 200
                 /\ get_job_status_response(j).job.id = j
                 /\ get_job_status_response(j).job.status = jobs[j].status
                 /\ get_job_status_response(j).job.target_language
                        = jobs[j].target_language
            ELSE get_job_status_response(j)
                    = Response(404, <<"Job not found">>, NoJob))
    /\ [](/\ get_jobs_response.count = Len(jobs)
          /\ \A j \in DOMAIN jobs :
                /\ get_jobs_response.jobs[j].status = jobs[j].status
                /\ get_jobs_response.jobs[j].target_language
                      = jobs[j].target_language)
    /\ [][(get_jobs \/ \E j \in JobIds : get_job_status(j))
            => UNCHANGED <<jobs, users>>]_vars

\* C14 witness: job 1 is no longer as it was created and is read as it is
\* now, and job 2 does not exist and is read as 404.
C14_Witness ==
    /\ Len(jobs) = 1
    /\ jobs[1].status = "processing"
    /\ get_job_status_response(1).job.status = "processing"
    /\ get_job_status_response(2).code = 404

\* C15: every job's user_id is the id of a row of the user table; no step
\* removes or changes a user row, removes a job row, or changes a job row's
\* id, user_id or original_filename; and the steps of a translate request
\* change at most the status and target_language of the job the request
\* names.
C15_JobFrame ==
    /\ [](\A j \in DOMAIN jobs :
            QueryGet(users, NoUser, jobs[j].user_id) # NoUser)
    /\ [][/\ Len(users') >= Len(users)
          /\ \A i \in DOMAIN users : users'[i] = users[i]
          /\ Len(jobs') >= Len(jobs)
          /\ \A j \in DOMAIN jobs :
                /\ jobs'[j].id = jobs[j].id
                /\ jobs'[j].user_id = jobs[j].user_id
                /\ jobs'[j].original_filename = jobs[j].original_filename]_vars
    /\ [][\A r \in Requests :
            ((\E data \in TranslateBodies : TranslateBegin(r, data))
                \/ TranslateCommit(r) \/ TranslateExcept(r))
            => /\ users' = users
               /\ Len(jobs') = Len(jobs)
               /\ \A j \in DOMAIN jobs :
                     j # req[r].job_id => jobs'[j] = jobs[j]]_vars

\* C15 witness: of two jobs of an existing user, the first was translated and
\* the second is as it was uploaded.
C15_Witness ==
    /\ Len(jobs) = 2
    /\ jobs[1].status = "processing"
    /\ jobs[1].target_language = "es"
    /\ jobs[2].status = "uploaded"
    /\ QueryGet(users, NoUser, jobs[1].user_id) # NoUser

\* C16: every job's file is stored, and two distinct jobs never have the same
\* stored file, so that a later upload cannot replace an earlier job's bytes.
C16_JobsHaveOwnFiles ==
    /\ \A j \in DOMAIN jobs : uploads[jobs[j].original_filename] # ""
    /\ \A j, k \in DOMAIN jobs :
            file_path(jobs[j].original_filename)
                = file_path(jobs[k].original_filename) => j = k

\* C17: a job row exists only for a file that is stored; a step that stores a
\* file or adds a job row is a step of an upload that passed every check (so
\* a rejected upload stores nothing and adds nothing), and a row is added only
\* together with or after its file; an upload without user_id is answered
\* 400, and an upload for an unknown user is answered 404 whether or not it
\* carries a file.
C17_JobOnlyAfterFileStored ==
    /\ [](\A j \in DOMAIN jobs : uploads[jobs[j].original_filename] # "")
    /\ [](\A files \in UploadFiles :
            /\ upload_file_checks(<<>>, files)
                  = Response(400, <<"user_id is required">>, NoJob)
            /\ \A u \in UserIds :
                  QueryGet(users, NoUser, u) = NoUser
                    => upload_file_checks([user_id |-> u], files)
                         = Response(404, <<"User not found">>, NoJob))
    /\ [][(uploads' # uploads \/ Len(jobs') # Len(jobs))
            => \E form \in UploadForms, files \in UploadFiles :
                 /\ upload_file_checks(form, files) = Pass
                 /\ uploads' = [uploads EXCEPT
                                  ![files.file.filename] = files.file.content]
                 /\ \/ jobs' = jobs
                    \/ jobs' = Append(jobs, NewJob(form.user_id,
                                                   files.file.filename))]_vars

\* C17 witness: an upload of an existing user stored its file and then raised
\* at the commit, so the file is there and no job row is; an upload for an
\* unknown user without a file is answered 404.
C17_Witness ==
    /\ users # <<>>
    /\ jobs = <<>>
    /\ \E f \in Filenames : uploads[f] # ""
    /\ upload_file_checks([user_id |-> 2], <<>>).code = 404

\* C18: while HEYGEN_API_KEY is not set every translate request, whatever its
\* body and whatever the job, is answered 500 'HeyGen API not configured', and
\* every job has status uploaded; while it is set a request is answered 400
\* if job_id or target_language is missing, else 404 if no row has the id,
\* else 400 if the row's status is not uploaded, else it is taken on.
C18_KeyCheckedFirst ==
    /\ [](~HEYGEN_API_KEY =>
            /\ \A data \in TranslateBodies :
                  start_translation_checks(data)
                    = Response(500, <<"HeyGen API not configured">>, NoJob)
            /\ \A j \in DOMAIN jobs : jobs[j].status = "uploaded"
            /\ \A r \in Requests : req[r].pc \notin {"loaded", "except"})
    /\ [](HEYGEN_API_KEY =>
            \A data \in TranslateBodies :
                start_translation_checks(data) =
                    IF ~("job_id" \in DOMAIN data /\ "target_language" \in DOMAIN data)
                    THEN Response(400, <<"job_id and target_language are required">>, NoJob)
                    ELSE IF data.job_id \notin DOMAIN jobs
                    THEN Response(404, <<"Job not found">>, NoJob)
                    ELSE IF jobs[data.job_id].status # "uploaded"
                    THEN Response(400, <<"Job status is", jobs[data.job_id].status,
                                         "expected uploaded">>, NoJob)
                    ELSE Pass)

\* C18 witness: without the key, with one uploaded job, a well-formed request
\* for that job, a request without a body and a request for an unknown job are
\* all answered 500.
C18_Witness ==
    /\ ~HEYGEN_API_KEY
    /\ Len(jobs) = 1
    /\ start_translation_checks([job_id |-> 1, target_language |-> "es"]).code = 500
    /\ start_translation_checks(<<>>).code = 500
    /\ start_translation_checks([job_id |-> 2, target_language |-> "es"]).code = 500

=============================================================================
